---- MODULE Spec2Model ----
(***************************************************************************)
(* scripts/train_risk_model.py: a command-line script that locates a CSV   *)
(* of risk features, validates its columns, splits the rows (stratified,   *)
(* seeded), fits a random forest, prints two report lines and optionally   *)
(* saves the model with joblib.                                            *)
(*                                                                         *)
(* The state is the process (program counter, locals, stdout, stderr, exit *)
(* status) and its environment (argv, the file system, whether joblib can  *)
(* be imported, the artifact beside the script).  One action per block of  *)
(* main().  An exception that main() does not catch ends the process with  *)
(* a traceback on stderr and exit status 1, as the Python runtime does.    *)
(*                                                                         *)
(* pandas, scikit-learn and joblib are called, not defined, by the script. *)
(* Their calls are modelled by what the called routine does with the       *)
(* arguments the script passes (test_size=0.2, stratify=y,                 *)
(* random_state=42, n_estimators=100); the pseudo-random generator is a    *)
(* small linear congruential generator standing for numpy's, and a fitted  *)
(* model, its accuracy and its importances are symbolic values that record *)
(* everything they are a function of.                                      *)
(***************************************************************************)
EXTENDS Integers, Sequences, FiniteSets, TLC

VARIABLES
    argv,        \* sys.argv[1:], each argument the segments between its "/"
    fs,          \* the path spellings that name an existing file
    file,        \* the content found at an existing input path
    joblibInstalled, \* whether "import joblib" succeeds
    stream,      \* which stream the installed generator yields for a seed
    artifact,    \* risk_model.joblib beside the script
    artifact0,   \* the artifact as it was when this run started
    pc,          \* position in main()
    csv_path,    \* local csv_path (<<>> before it is bound)
    df,          \* local df (None before read_csv returns)
    X,           \* local X: the columns handed to training
    parts,       \* the result of train_test_split
    model,       \* the fitted classifier
    stdout,      \* lines printed by this run
    stderr,      \* the uncaught exception of this run, if any
    exitCode,    \* process exit status (Running before the process ends)
    trace,       \* the stages this run has entered, in order
    calls,       \* the library calls this run has made, in order
    run,         \* number of the current run of the script
    prev         \* outcome of the previous run on the same input

vars == <<argv, fs, file, joblibInstalled, stream, artifact, artifact0, pc, csv_path, df, X,
          parts, model, stdout, stderr, exitCode, trace, calls, run, prev>>

env == <<argv, fs, file, joblibInstalled, stream>>

----------------------------------------------------------------------------
(* Bounds of the model *)

\* Rows per label value in an input table (tables have up to 2*MaxPerLabel rows).
MaxPerLabel == 6

\* Runs of the script on the same input.
MaxRuns == 2

\* Pseudo-random streams considered for a seed.
Streams == 2

----------------------------------------------------------------------------
(* Program constants *)

FEATURE_COLUMNS ==
    <<"totalCount", "failureCount", "failureRate",
      "countLast1Min", "avgAmount", "maxAmount">>

TARGET_COLUMN == "label"

\* "risk_training_data.csv", as segments
DefaultPath == <<"risk_training_data.csv">>

\* test_size=0.2, as a percentage
TestSizePercent == 20

\* random_state=42 of train_test_split
SplitRandomState == 42

\* random_state=42 of RandomForestClassifier
FitRandomState == 42

\* n_estimators=100
NEstimators == 100

\* A name that is not bound yet: a string, a table or object, a status.
NoValue == "<none>"
None == [none |-> TRUE]
Running == -1
\* The files a working directory can hold, and the ways a command line can
\* spell a file: plainly, and with a leading "./".
DiskNames == {"data.csv", "risk_training_data.csv"}
Spellings(f) == {<<f>>, <<".", f>>}
Arguments == Spellings("data.csv")
Labels == {0, 1}

----------------------------------------------------------------------------
(* Helpers *)

Range(s) == {s[i] : i \in 1..Len(s)}

RECURSIVE SumOver(_, _)
SumOver(f, S) ==
    IF S = {} THEN 0
    ELSE LET c == CHOOSE c \in S : TRUE
         IN  f[c] + SumOver(f, S \ {c})

\* The elements of a finite set of integers in ascending order.
Sorted(S) ==
    [k \in 1..Cardinality(S) |->
        CHOOSE m \in S : Cardinality({o \in S : o < m}) = k - 1]

\* The element of a one-element set.
TheOne(S) == CHOOSE x \in S : TRUE

\* The pseudo-random generator: its state after seeding, and one step.  The
\* stream a seed yields is fixed by the installed library; which one it is
\* does not matter to the script, so the model takes any of a few.
Seeded(seed) == (seed + stream) % 65537
Lcg(s) == (75 * s + 74) % 65537

\* A seeded choice of one element of a non-empty set of integers.
Pick(S, s) == Sorted(S)[(s % Cardinality(S)) + 1]

----------------------------------------------------------------------------
(* Input files *)

\* a rows labelled 0 followed by b rows labelled 1
Grouped(a, b) == [i \in 1..(a + b) |-> IF i <= a THEN 0 ELSE 1]

\* rows labelled 0 and 1 alternating while both remain, then the rest
Interleaved(a, b) ==
    LET m == IF a < b THEN a ELSE b
    IN  [i \in 1..(a + b) |->
            IF i <= 2 * m THEN (i + 1) % 2
            ELSE IF a > b THEN 0 ELSE 1]

LabelColumns ==
    {Grouped(a, b) : a \in 0..MaxPerLabel, b \in 0..MaxPerLabel}
    \cup {Interleaved(a, b) : a \in 1..MaxPerLabel, b \in 1..MaxPerLabel}

FullHeader == FEATURE_COLUMNS \o <<TARGET_COLUMN>>

\* Headers with every required column: canonical order, label first,
\* reversed features, and with extra columns in front, inside and behind.
ValidHeaders ==
    { FullHeader,
      <<TARGET_COLUMN>> \o FEATURE_COLUMNS,
      <<"label", "maxAmount", "avgAmount", "countLast1Min",
        "failureRate", "failureCount", "totalCount">>,
      <<"entityId">> \o FullHeader,
      <<"totalCount", "failureCount", "entityId", "failureRate",
        "countLast1Min", "avgAmount", "maxAmount", "label", "ts">>,
      <<"ts", "maxAmount", "label", "entityId", "avgAmount", "countLast1Min",
        "failureRate", "failureCount", "totalCount">> }

\* Headers that lack one or more required columns.
DeficientHeaders ==
    { FEATURE_COLUMNS,
      <<"totalCount", "failureCount", "countLast1Min",
        "avgAmount", "maxAmount", "label">>,
      <<"label", "maxAmount", "avgAmount", "failureRate", "totalCount">>,
      <<"failureCount", "totalCount", "entityId">>,
      <<"entityId", "ts">>,
      <<"Label", "totalCount", "failureCount", "failureRate",
        "countLast1Min", "avgAmount", "maxAmount">> }

\* A file: whether pandas can parse it at all (an empty file, a row with too
\* many fields and a wrong encoding cannot be parsed), its header, the
\* values of its label column (when it has one) and whether every feature
\* value is a number.
File(p, h, l, n) == [parses |-> p, header |-> h, labels |-> l, numeric |-> n]

SampleLabels == Grouped(3, 3)

Files ==
    {File(TRUE, FullHeader, l, TRUE) : l \in LabelColumns}
    \cup {File(TRUE, h, SampleLabels, TRUE) : h \in ValidHeaders}
    \cup {File(TRUE, h, SampleLabels, n) :
            h \in DeficientHeaders, n \in BOOLEAN}
    \cup {File(TRUE, FullHeader, l, FALSE) :
            l \in {SampleLabels, Grouped(1, 0)}}
    \cup {File(FALSE, h, <<>>, TRUE) :
            h \in {<<>>, FullHeader, FEATURE_COLUMNS}}

----------------------------------------------------------------------------
(* pandas *)

\* pd.read_csv: the table, one column per header field; a column is its name
\* and the position in the file its values come from.
read_csv(f) ==
    [columns |-> [j \in 1..Len(f.header) |-> [name |-> f.header[j], src |-> j]],
     labels  |-> f.labels,
     numeric |-> f.numeric]

ColumnNames(d) == {d.columns[j].name : j \in 1..Len(d.columns)}

\* df[names]: the named columns, in the order of names.
SelectColumns(d, names) ==
    [i \in 1..Len(names) |->
        d.columns[CHOOSE j \in 1..Len(d.columns) : d.columns[j].name = names[i]]]

----------------------------------------------------------------------------
(* scikit-learn: train_test_split(X, y, test_size, random_state, stratify=y) *)

Classes(y) == Range(y)

ClassCounts(y) ==
    [c \in Classes(y) |-> Cardinality({i \in 1..Len(y) : y[i] = c})]

\* n_test = ceil(test_size * n_samples)
NTest(n) == (TestSizePercent * n + 99) \div 100

\* n_train = n_samples - n_test
NTrain(n) == n - NTest(n)

\* The ValueErrors of the stratified split: no rows, an empty train set, a
\* class with a single member, fewer train or test rows than classes.
SplitRaises(y) ==
    LET n == Len(y)
        k == Cardinality(Classes(y))
    IN  \/ n = 0
        \/ NTrain(n) = 0
        \/ \E c \in Classes(y) : ClassCounts(y)[c] < 2
        \/ NTrain(n) < k
        \/ NTest(n) < k

\* Hands out the rows that flooring left over, one each to the classes with
\* the largest remainders, ties broken by the generator.
RECURSIVE AddLargestRemainders(_, _, _, _, _)
AddLargestRemainders(floored, rem, need, done, s) ==
    IF need = 0 \/ DOMAIN floored = done THEN floored
    ELSE LET cand == DOMAIN floored \ done
             top  == {c \in cand : \A d \in cand : rem[d] <= rem[c]}
             c    == Pick(top, s)
         IN  AddLargestRemainders([floored EXCEPT ![c] = @ + 1], rem,
                                  need - 1, done \cup {c}, Lcg(s))

\* The number of rows of each class among n_draws rows drawn in proportion
\* to counts: the proportional share rounded down, the remaining rows given
\* to the largest remainders.
ApproximateMode(counts, n_draws, s) ==
    LET total   == SumOver(counts, DOMAIN counts)
        floored == [c \in DOMAIN counts |-> (counts[c] * n_draws) \div total]
        rem     == [c \in DOMAIN counts |-> (counts[c] * n_draws) % total]
        need    == n_draws - SumOver(floored, DOMAIN counts)
    IN  AddLargestRemainders(floored, rem, need, {}, s)

\* The rows of class c in a seeded order.
ClassPermutation(y, c, s) ==
    LET Rotated(rows, r) ==
            [k \in 1..Len(rows) |-> rows[((k - 1 + r) % Len(rows)) + 1]]
    IN  TheOne({Rotated(rows, s % Len(rows)) :
                  rows \in {Sorted({i \in 1..Len(y) : y[i] = c})}})

\* stratify=y: n_i rows of each class train and t_i test, the class counts
\* of the two sets being drawn in proportion to those of y (train first,
\* test from what is left); per class, the first n_i rows of its
\* permutation train and the next t_i test.
StratifiedParts(y, seed) ==
    LET n  == Len(y)
        s1 == Lcg(Seeded(seed))
        s2 == Lcg(s1)
        Assemble(n_i, t_i, perm) ==
            [train |-> UNION {{perm[c][k] : k \in 1..n_i[c]} : c \in DOMAIN n_i},
             test  |-> UNION {{perm[c][k] : k \in (n_i[c] + 1)..(n_i[c] + t_i[c])} :
                                c \in DOMAIN n_i}]
        Rows(n_i, t_i) ==
            TheOne({Assemble(n_i, t_i, perm) :
                      perm \in {[c \in DOMAIN n_i |->
                                   ClassPermutation(y, c, Lcg(s2 + c))]}})
        Test(counts, n_i) ==
            TheOne({Rows(n_i, t_i) :
                      t_i \in {ApproximateMode(
                                  [c \in DOMAIN counts |-> counts[c] - n_i[c]],
                                  NTest(n), s2)}})
        Train(counts) ==
            TheOne({Test(counts, n_i) :
                      n_i \in {ApproximateMode(counts, NTrain(n), s1)}})
    IN  TheOne({Train(counts) : counts \in {ClassCounts(y)}})

\* stratify=None: a seeded permutation of all rows, the first n_test rows
\* test and the next n_train train.
ShuffledParts(y, seed) ==
    LET n == Len(y)
        r == Lcg(Seeded(seed)) % n
        perm == [k \in 1..n |-> ((k - 1 + r) % n) + 1]
    IN  [train |-> {perm[k] : k \in (NTest(n) + 1)..n},
         test  |-> {perm[k] : k \in 1..NTest(n)}]

\* The call of lines 49-51.
train_test_split(y, seed) == StratifiedParts(y, seed)

----------------------------------------------------------------------------
(* scikit-learn: RandomForestClassifier(n_estimators, random_state) *)

\* fit raises ValueError on a feature value that is not a number.
FitRaises(d) == ~d.numeric

\* The fitted model is a function of the feature columns, the training rows
\* and their labels, the number of trees and the seed.
Fitted(Xcols, y, train, seed) ==
    [features |-> [i \in 1..Len(Xcols) |-> Xcols[i].src],
     rows     |-> train,
     labels   |-> [i \in train |-> y[i]],
     trees    |-> NEstimators,
     seed     |-> seed]

\* model.score(X_test, y_test)
Score(m, Xcols, y, test) ==
    [of |-> m, features |-> [i \in 1..Len(Xcols) |-> Xcols[i].src],
     rows |-> test, labels |-> [i \in test |-> y[i]]]

\* model.feature_importances_: one value per feature, in the order of the
\* columns the model was fitted on.
FeatureImportances(m) ==
    [i \in 1..Len(m.features) |->
        [column |-> m.features[i], rows |-> m.rows, seed |-> m.seed]]

----------------------------------------------------------------------------
(* main() *)

Line(text, args) == [text |-> text, args |-> args]

\* pathlib.Path(text) of a relative path: "." and empty segments are dropped
\* ("./x" and "x//" become "x"); a path with no segment left is ".".
Path(text) ==
    LET kept == SelectSeq(text, LAMBDA seg : seg \notin {".", ""})
    IN  IF kept = <<>> THEN <<".">> ELSE kept

\* Variant: the argument is ignored and the default file always used.
ResolveDefaultOnly(a) == Path(DefaultPath)

\* Lines 29-32.
ResolveCsvPath(a) == IF Len(a) > 0 THEN Path(a[1]) ELSE Path(DefaultPath)

\* Lines 35-37.
FileNotFoundLines(p) ==
    << Line("File not found: ", <<p>>),
       Line("Generate it first: start the app, then curl the training-data endpoint.", <<>>),
       Line("Example: curl -s 'http://localhost:8080/api/v1/risk/demo/training-data?rows=500' -o risk_training_data.csv", <<>>) >>

\* Variant: the label column is not checked.
RequiredFeaturesOnly == FEATURE_COLUMNS

\* Line 41: the columns the loop checks, in its order.
RequiredColumns == FEATURE_COLUMNS \o <<TARGET_COLUMN>>

\* Variant: the loop does not stop at the first column it misses, so the
\* last missing column is the one reported.
RECURSIVE LastMissing(_, _, _)
LastMissing(d, cols, i) ==
    IF i > Len(cols) THEN NoValue
    ELSE LET later == LastMissing(d, cols, i + 1)
         IN  IF later # NoValue THEN later
             ELSE IF cols[i] \notin ColumnNames(d) THEN cols[i]
             ELSE NoValue

\* Lines 41-42: the loop over FEATURE_COLUMNS + [TARGET_COLUMN] from index i;
\* the first column that is not in the table, or NoValue.
RECURSIVE FirstMissing(_, _, _)
FirstMissing(d, cols, i) ==
    IF i > Len(cols) THEN NoValue
    ELSE IF cols[i] \notin ColumnNames(d) THEN cols[i]
    ELSE FirstMissing(d, cols, i + 1)

\* Line 43.
MissingColumnLine(col, d) ==
    Line("Missing column: ", <<col, [j \in 1..Len(d.columns) |-> d.columns[j].name]>>)

\* Variant: the first six columns of the table, by position.
FirstSixColumns(d) == [i \in 1..Len(FEATURE_COLUMNS) |-> d.columns[i]]

\* Line 46.
FeatureFrame(d) == SelectColumns(d, FEATURE_COLUMNS)

\* Line 50: the seeds the split can run with.
SplitSeeds == {SplitRandomState}

\* Variant: random_state is left out, so each fit draws its own seed.
UnseededFit == {FitRandomState, 7}

\* Line 53: the seeds the forest can be fitted with.
FitSeeds == {FitRandomState}

\* zip(names, values): pairs up to the shorter of the two.
Zip(names, values) ==
    LET n == IF Len(names) < Len(values) THEN Len(names) ELSE Len(values)
    IN  [i \in 1..n |-> [key |-> names[i], value |-> values[i]]]

\* .round(4) and the :.4f format
Round4(v) == [rounded |-> 4, of |-> v]

\* Variant: the importances are printed before the accuracy.
ReportLinesSwapped(score, importances) ==
    << Line("Feature importances:",
            <<Zip(FEATURE_COLUMNS,
                  [i \in 1..Len(importances) |-> Round4(importances[i])])>>),
       Line("Test accuracy: ", <<Round4(score)>>) >>

\* Lines 57-58.
ReportLines(score, importances) ==
    << Line("Test accuracy: ", <<Round4(score)>>),
       Line("Feature importances:",
            <<Zip(FEATURE_COLUMNS,
                  [i \in 1..Len(importances) |-> Round4(importances[i])])>>) >>

\* Line 61.
out_path == "scripts/risk_model.joblib"

\* The file at out_path: absent, a complete dump of a model, or the start of one.
Absent == [state |-> "absent", content |-> None]
PartlyWritten == [state |-> "partly written", content |-> None]

\* Line 64: joblib.dump(model, out_path) creates or overwrites the file.
dump(m) == [state |-> "saved", content |-> m]

\* Line 65.
SavedLine == Line("Model saved to ", <<out_path>>)

\* An exception nothing catches: traceback on stderr, exit status 1.
Uncaught(exc) ==
    /\ stderr' = <<exc>>
    /\ exitCode' = 1
    /\ pc' = "exit"

Init ==
    /\ argv \in {<<>>} \cup {<<a>> : a \in Arguments}
    /\ fs \in {UNION {Spellings(f) : f \in present} : present \in SUBSET DiskNames}
    /\ file \in Files
    /\ joblibInstalled \in BOOLEAN
    /\ stream \in 0..(Streams - 1)
    /\ artifact = Absent
    /\ artifact0 = Absent
    /\ pc = "start"
    /\ csv_path = <<>>
    /\ df = None
    /\ X = <<>>
    /\ parts = None
    /\ model = None
    /\ stdout = <<>>
    /\ stderr = <<>>
    /\ exitCode = Running
    /\ trace = <<>>
    /\ calls = <<>>
    /\ run = 1
    /\ prev = None

\* Lines 29-32.
ResolvePath ==
    /\ pc = "start"
    /\ csv_path' = ResolveCsvPath(argv)
    /\ trace' = Append(trace, "Load")
    /\ pc' = "exists"
    /\ UNCHANGED <<env, artifact, artifact0, df, X, parts, model, stdout,
                   stderr, exitCode, calls, run, prev>>

\* Lines 34-38.
CheckExists ==
    /\ pc = "exists"
    /\ calls' = Append(calls, "exists")
    /\ IF csv_path \notin fs
       THEN /\ stdout' = stdout \o FileNotFoundLines(csv_path)
            /\ exitCode' = 1
            /\ pc' = "exit"
       ELSE /\ pc' = "read"
            /\ UNCHANGED <<stdout, exitCode>>
    /\ UNCHANGED <<env, artifact, artifact0, csv_path, df, X, parts, model,
                   stderr, trace, run, prev>>

\* Line 40.
ReadCsv ==
    /\ pc = "read"
    /\ calls' = Append(calls, "read_csv")
    /\ IF ~file.parses
       THEN /\ Uncaught("read_csv: ParserError")
            /\ UNCHANGED <<df, trace>>
       ELSE /\ df' = read_csv(file)
            /\ trace' = Append(trace, "Validate")
            /\ pc' = "validate"
            /\ UNCHANGED <<stderr, exitCode>>
    /\ UNCHANGED <<env, artifact, artifact0, csv_path, X, parts, model,
                   stdout, run, prev>>

\* Variant: the missing column is reported but the status is 0.
ValidateColumnsExitZero ==
    /\ pc = "validate"
    /\ LET col == FirstMissing(df, RequiredColumns, 1)
       IN  IF col # NoValue
           THEN /\ stdout' = Append(stdout, MissingColumnLine(col, df))
                /\ exitCode' = 0
                /\ pc' = "exit"
                /\ UNCHANGED trace
           ELSE /\ trace' = Append(trace, "Split")
                /\ pc' = "split"
                /\ UNCHANGED <<stdout, exitCode>>
    /\ UNCHANGED <<env, artifact, artifact0, csv_path, df, X, parts, model,
                   stderr, calls, run, prev>>

\* Lines 41-44.
ValidateColumns ==
    /\ pc = "validate"
    /\ LET col == FirstMissing(df, RequiredColumns, 1)
       IN  IF col # NoValue
           THEN /\ stdout' = Append(stdout, MissingColumnLine(col, df))
                /\ exitCode' = 1
                /\ pc' = "exit"
                /\ UNCHANGED trace
           ELSE /\ trace' = Append(trace, "Split")
                /\ pc' = "split"
                /\ UNCHANGED <<stdout, exitCode>>
    /\ UNCHANGED <<env, artifact, artifact0, csv_path, df, X, parts, model,
                   stderr, calls, run, prev>>

\* Lines 46-51.  Selecting a column the table does not have is a KeyError.
Split ==
    /\ pc = "split"
    /\ IF ~(Range(FEATURE_COLUMNS) \cup {TARGET_COLUMN} \subseteq ColumnNames(df))
       THEN /\ Uncaught("df[...]: KeyError")
            /\ UNCHANGED <<X, parts, trace, calls>>
       ELSE /\ X' = FeatureFrame(df)
            /\ calls' = Append(calls, "train_test_split")
            /\ IF SplitRaises(df.labels)
               THEN /\ Uncaught("train_test_split: ValueError")
                    /\ UNCHANGED <<parts, trace>>
               ELSE /\ \E seed \in SplitSeeds :
                          parts' = train_test_split(df.labels, seed)
                    /\ trace' = Append(trace, "Fit")
                    /\ pc' = "fit"
                    /\ UNCHANGED <<stderr, exitCode>>
    /\ UNCHANGED <<env, artifact, artifact0, csv_path, df, model, stdout,
                   run, prev>>

\* Lines 53-54.
Fit ==
    /\ pc = "fit"
    /\ calls' = Append(calls, "fit")
    /\ IF FitRaises(df)
       THEN /\ Uncaught("fit: ValueError")
            /\ UNCHANGED <<model, trace>>
       ELSE /\ \E seed \in FitSeeds :
                  model' = Fitted(X, df.labels, parts.train, seed)
            /\ trace' = Append(trace, "Report")
            /\ pc' = "report"
            /\ UNCHANGED <<stderr, exitCode>>
    /\ UNCHANGED <<env, artifact, artifact0, csv_path, df, X, parts, stdout,
                   run, prev>>

\* Lines 56-58.
Report ==
    /\ pc = "report"
    /\ calls' = Append(calls, "score")
    /\ stdout' = stdout \o ReportLines(Score(model, X, df.labels, parts.test),
                                       FeatureImportances(model))
    /\ trace' = Append(trace, "Persist")
    /\ pc' = "persist"
    /\ UNCHANGED <<env, artifact, artifact0, csv_path, df, X, parts, model,
                   stderr, exitCode, run, prev>>

\* Variant: the import is outside the try block, so the ImportError ends the
\* process.
PersistImportUncaught ==
    /\ pc = "persist"
    /\ ~joblibInstalled
    /\ calls' = Append(calls, "import joblib")
    /\ Uncaught("import joblib: ImportError")
    /\ UNCHANGED <<env, artifact, artifact0, csv_path, df, X, parts, model,
                   stdout, trace, run, prev>>

\* Lines 61-67, joblib missing: ImportError, caught by the except clause;
\* main() returns and the process ends with status 0.
PersistSkipped ==
    /\ pc = "persist"
    /\ ~joblibInstalled
    /\ calls' = Append(calls, "import joblib")
    /\ exitCode' = 0
    /\ pc' = "exit"
    /\ UNCHANGED <<env, artifact, artifact0, csv_path, df, X, parts, model,
                   stdout, stderr, trace, run, prev>>

\* Lines 61-67, joblib present and dump returns.
PersistSaved ==
    /\ pc = "persist"
    /\ joblibInstalled
    /\ calls' = calls \o <<"import joblib", "joblib.dump">>
    /\ artifact' = dump(model)
    /\ stdout' = Append(stdout, SavedLine)
    /\ exitCode' = 0
    /\ pc' = "exit"
    /\ UNCHANGED <<env, artifact0, csv_path, df, X, parts, model, stderr,
                   trace, run, prev>>

\* Variant: the except clause catches every exception, so a failed dump is
\* passed over like a missing joblib.
PersistFailureSwallowed ==
    /\ pc = "persist"
    /\ joblibInstalled
    /\ calls' = calls \o <<"import joblib", "joblib.dump">>
    /\ artifact' \in {artifact, PartlyWritten}
    /\ exitCode' = 0
    /\ pc' = "exit"
    /\ UNCHANGED <<env, artifact0, csv_path, df, X, parts, model, stdout,
                   stderr, trace, run, prev>>

\* Lines 61-67, joblib present and dump raises (no permission, disk full):
\* not an ImportError, so nothing catches it; the file is left as it was or
\* partly written.
PersistFailed ==
    /\ pc = "persist"
    /\ joblibInstalled
    /\ calls' = calls \o <<"import joblib", "joblib.dump">>
    /\ artifact' \in {artifact, PartlyWritten}
    /\ Uncaught("joblib.dump: OSError")
    /\ UNCHANGED <<env, artifact0, csv_path, df, X, parts, model, stdout,
                   trace, run, prev>>

\* What a run leaves behind for comparison with the next one.
Outcome ==
    [exitCode |-> exitCode, stdout |-> stdout, stderr |-> stderr,
     trace |-> trace, calls |-> calls]

\* Lines 70-71: the script is started again on the same input.
Rerun ==
    /\ pc = "exit"
    /\ run < MaxRuns
    /\ run' = run + 1
    /\ prev' = Outcome
    /\ artifact0' = artifact
    /\ pc' = "start"
    /\ csv_path' = <<>>
    /\ df' = None
    /\ X' = <<>>
    /\ parts' = None
    /\ model' = None
    /\ stdout' = <<>>
    /\ stderr' = <<>>
    /\ exitCode' = Running
    /\ trace' = <<>>
    /\ calls' = <<>>
    /\ UNCHANGED <<env, artifact>>

\* The steps of one process.
Step ==
    \/ ResolvePath
    \/ CheckExists
    \/ ReadCsv
    \/ ValidateColumns
    \/ Split
    \/ Fit
    \/ Report
    \/ PersistSkipped
    \/ PersistSaved
    \/ PersistFailed

Next == Step \/ Rerun

Spec == Init /\ [][Next]_vars

\* A started process runs on: main() is sequential code without waits.
LiveSpec == Spec /\ WF_vars(Step)

----------------------------------------------------------------------------
(* Vocabulary of the properties *)

Done == pc = "exit"

\* The input path: the first command-line argument, or the default.
InputPath == IF argv = <<>> THEN DefaultPath ELSE argv[1]

InputMissing == InputPath \notin fs

\* The plain spelling of the file the input path names.
PlainInputPath ==
    TheOne({<<f>> : f \in {f \in DiskNames : InputPath \in Spellings(f)}})

\* The required columns the file's header does not have.
AbsentColumns == {c \in Range(FullHeader) : c \notin Range(file.header)}

\* The first absent column in the order of the seven required columns.
FirstAbsent ==
    FullHeader[CHOOSE i \in 1..Len(FullHeader) :
                  /\ FullHeader[i] \in AbsentColumns
                  /\ \A j \in 1..(i - 1) : FullHeader[j] \notin AbsentColumns]

Entered(stage) == stage \in Range(trace)
Called(f) == f \in Range(calls)

Printed(text) == \E i \in 1..Len(stdout) : stdout[i].text = text

\* This run has not touched the artifact.
ArtifactUntouched == artifact = artifact0 /\ ~Called("joblib.dump")

----------------------------------------------------------------------------
(* C1 *)

\* C1 as stated: when the input path (argv[1], or risk_training_data.csv
\* without an argument) does not exist, the run never parses, validates,
\* trains or persists, and it ends with status 1 and a diagnostic that
\* contains that path.
C1_AsStated ==
    InputMissing =>
        /\ ~Called("read_csv") /\ ~Called("train_test_split")
        /\ ~Called("fit") /\ ~Called("score") /\ ~Called("import joblib")
        /\ Done => /\ exitCode = 1
                   /\ \E i \in 1..Len(stdout) : stdout[i].args = <<InputPath>>

\* C1 amended: when the input path does not exist, the run never parses,
\* validates, trains or persists, leaves the artifact alone, and ends with
\* status 1 and the three "File not found" lines, the first of which
\* carries the path as pathlib spells it: the same file, without "." and
\* empty segments ("./data.csv" is reported as "data.csv").
C1_MissingFileFailsFast ==
    InputMissing =>
        /\ ~Called("read_csv") /\ ~Called("train_test_split")
        /\ ~Called("fit") /\ ~Called("score") /\ ~Called("import joblib")
        /\ Range(trace) \subseteq {"Load"}
        /\ ArtifactUntouched
        /\ Done => /\ exitCode = 1
                   /\ stdout = FileNotFoundLines(PlainInputPath)
                   /\ stdout[1].args = <<PlainInputPath>>
                   /\ stderr = <<>>

\* A run given "./data.csv", which does not exist while the default file
\* does, has ended.
C1_Witness ==
    /\ Done /\ argv = << <<".", "data.csv">> >>
    /\ InputMissing /\ DefaultPath \in fs
    /\ exitCode = 1

----------------------------------------------------------------------------
(* C2 *)

\* C2 as stated: every existing input file whose header lacks a required
\* column ends the run with status 1 and exactly one diagnostic, which names
\* the first absent column and lists the columns found.
C2_AsStated ==
    (Done /\ ~InputMissing /\ file.header # <<>> /\ AbsentColumns # {}) =>
        /\ exitCode = 1
        /\ Len(stdout) = 1
        /\ stdout[1] = Line("Missing column: ", <<FirstAbsent, file.header>>)

\* C2 amended: every existing input file that pandas parses into a table
\* whose header lacks a required column ends the run with status 1 and
\* exactly one line on stdout, "Missing column:", naming the first absent
\* column in the order totalCount .. maxAmount, label and listing the
\* header's columns as found; nothing is on stderr.
C2_MissingColumnDiagnostic ==
    (Done /\ ~InputMissing /\ file.parses /\ AbsentColumns # {}) =>
        /\ exitCode = 1
        /\ Len(stdout) = 1
        /\ stdout[1] = Line("Missing column: ", <<FirstAbsent, file.header>>)
        /\ stdout[1].args[1] \in AbsentColumns
        /\ stderr = <<>>

\* A run on a parsed file that lacks two required columns has ended.
C2_Witness ==
    /\ Done /\ ~InputMissing /\ file.parses
    /\ Cardinality(AbsentColumns) >= 2
    /\ "label" \notin AbsentColumns
    /\ Printed("Missing column: ")

----------------------------------------------------------------------------
(* C3 *)

\* A library call of the run raises an exception that main() does not catch.
ParseRaises == ~InputMissing /\ ~file.parses
Validated == ~InputMissing /\ file.parses /\ AbsentColumns = {}
SplitFails == Validated /\ SplitRaises(file.labels)
FitFails == Validated /\ ~SplitRaises(file.labels) /\ ~file.numeric
DumpFails == Called("joblib.dump") /\ stderr = <<"joblib.dump: OSError">>

\* C3 as stated: status 1 exactly when the input file does not exist or a
\* required column is absent; status 0 in every other run.
C3_AsStated ==
    Done => /\ exitCode \in {0, 1}
            /\ exitCode = 1 <=> (InputMissing \/ AbsentColumns # {})

\* C3 amended: status 1 when the input file does not exist, when a required
\* column is absent, and also when read_csv, train_test_split, fit or
\* joblib.dump raises (an uncaught exception); status 0 in every other run.
C3_ExitCodes ==
    Done => /\ exitCode \in {0, 1}
            /\ exitCode = 1 <=>
                  \/ InputMissing
                  \/ ParseRaises
                  \/ (~InputMissing /\ file.parses /\ AbsentColumns # {})
                  \/ SplitFails
                  \/ FitFails
                  \/ DumpFails

\* A run has ended with status 1 on an existing file that has every required
\* column, and another kind of run would have ended with 0.
C3_Witness ==
    /\ Done /\ Validated /\ exitCode = 1 /\ SplitFails

----------------------------------------------------------------------------
(* C4 *)

\* The two report lines are on stdout, accuracy first.
ReportPrinted ==
    /\ Len(stdout) >= 2
    /\ stdout[1].text = "Test accuracy: "
    /\ stdout[2].text = "Feature importances:"

\* C4: a run that reaches Persist without joblib ends with status 0 and no
\* traceback; its stdout is exactly the accuracy line and the importances
\* line, with no "Model saved" line, and risk_model.joblib is as it was
\* before the run.
C4_MissingJoblibSkipsSilently ==
    (Done /\ Entered("Persist") /\ ~joblibInstalled) =>
        /\ exitCode = 0
        /\ stderr = <<>>
        /\ ReportPrinted
        /\ Len(stdout) = 2
        /\ ~Printed(SavedLine.text)
        /\ ArtifactUntouched

\* A second run without joblib has ended after Persist.
C4_Witness ==
    /\ Done /\ Entered("Persist") /\ ~joblibInstalled
    /\ exitCode = 0 /\ run = 2

----------------------------------------------------------------------------
(* C5 *)

\* C5 as stated: every run that completed Report ends with status 0,
\* whether joblib is missing or the dump itself fails.
C5_AsStated ==
    (Done /\ Entered("Persist")) => exitCode = 0

\* C5 amended: of the failures in Persist only the missing serialization
\* capability (ImportError) is swallowed.  A run that completed Report ends
\* with status 0 when joblib is missing (nothing written) and when the dump
\* succeeds (artifact written, "Model saved" printed); when the dump raises,
\* the exception is not caught and the run ends with a traceback and
\* status 1, after the two report lines and without a "Model saved" line.
C5_OnlyImportErrorSwallowed ==
    (Done /\ Entered("Persist")) =>
        /\ ReportPrinted
        /\ \/ /\ ~joblibInstalled
              /\ exitCode = 0 /\ stderr = <<>>
              /\ Len(stdout) = 2 /\ ArtifactUntouched
           \/ /\ joblibInstalled
              /\ exitCode = 0 /\ stderr = <<>>
              /\ Len(stdout) = 3 /\ stdout[3] = SavedLine
              /\ artifact = dump(model)
           \/ /\ joblibInstalled
              /\ exitCode = 1 /\ stderr = <<"joblib.dump: OSError">>
              /\ Len(stdout) = 2

\* A run whose dump raised has ended.
C5_Witness ==
    /\ Done /\ Entered("Persist") /\ joblibInstalled
    /\ DumpFails /\ exitCode = 1

----------------------------------------------------------------------------
(* C6 *)

EndsFileNotFound == Done /\ Printed("File not found: ")
EndsSchemaMismatch == Done /\ Printed("Missing column: ")

\* C6: a run that ends in FileNotFound or SchemaMismatch has entered none of
\* Split, Fit, Report and Persist, has printed neither report line and has
\* not touched risk_model.joblib; and Split is entered only when the input
\* file exists and has all seven required columns.
C6_ValidationAllOrNothing ==
    /\ (EndsFileNotFound \/ EndsSchemaMismatch) =>
          /\ Range(trace) \subseteq {"Load", "Validate"}
          /\ ~Called("train_test_split") /\ ~Called("fit")
          /\ ~Called("score") /\ ~Called("import joblib")
          /\ ~Printed("Test accuracy: ")
          /\ ~Printed("Feature importances:")
          /\ ~Printed(SavedLine.text)
          /\ ArtifactUntouched
          /\ exitCode = 1
    /\ (Entered("Split") \/ Called("train_test_split")) =>
          /\ ~InputMissing
          /\ AbsentColumns = {}
    /\ (Done /\ (InputMissing \/ (file.parses /\ AbsentColumns # {}))) =>
          (EndsFileNotFound \/ EndsSchemaMismatch)

\* A second run has ended in SchemaMismatch for a missing label column.
C6_Witness ==
    /\ EndsSchemaMismatch /\ run = 2
    /\ AbsentColumns = {TARGET_COLUMN}

----------------------------------------------------------------------------
(* C7 *)

\* The position of a column in the file's header.
PositionOf(name) ==
    CHOOSE j \in 1..Len(file.header) : file.header[j] = name

ExtraPositions ==
    {j \in 1..Len(file.header) : file.header[j] \notin Range(FullHeader)}

\* C7: whatever the order of the header and whatever extra columns it has,
\* validation passes exactly when the seven required columns are present;
\* the columns handed to training are the six feature columns in the fixed
\* order, each with the values of the file column of that name; the
\* importances line has those six keys in that order, each paired with the
\* importance of its own column; no extra column reaches the model or the
\* report.
C7_FixedFeatureOrder ==
    /\ (~InputMissing /\ file.parses /\ pc \notin {"start", "exists", "read", "validate"}) =>
          (Entered("Split") <=> Range(FullHeader) \subseteq Range(file.header))
    /\ Called("train_test_split") =>
          /\ Len(X) = Len(FEATURE_COLUMNS)
          /\ \A i \in 1..Len(X) :
                /\ X[i].name = FEATURE_COLUMNS[i]
                /\ X[i].src = PositionOf(FEATURE_COLUMNS[i])
                /\ X[i].src \notin ExtraPositions
    /\ Printed("Feature importances:") =>
          LET pairs == stdout[2].args[1]
          IN  /\ stdout[2].text = "Feature importances:"
              /\ Len(pairs) = Len(FEATURE_COLUMNS)
              /\ \A i \in 1..Len(pairs) :
                    /\ pairs[i].key = FEATURE_COLUMNS[i]
                    /\ pairs[i].value.of.column = PositionOf(pairs[i].key)
                    /\ pairs[i].value.of.column \notin ExtraPositions

\* The report has been printed for a file whose header has extra columns and
\* the features in another order.
C7_Witness ==
    /\ Printed("Feature importances:")
    /\ ExtraPositions # {}
    /\ file.header[1] = "ts"
    /\ file.header[2] = "maxAmount"

----------------------------------------------------------------------------
(* C8 *)

\* The accuracy and importances lines of an output.
ReportOf(out) ==
    SelectSeq(out, LAMBDA l : l.text \in {"Test accuracy: ", "Feature importances:"})

DumpRaised(err) == err = <<"joblib.dump: OSError">>

\* C8 as stated: a second run on the same path, file contents and joblib
\* availability goes through the same stages and ends with the same exit
\* code and the same output as the first.
C8_AsStated ==
    (Done /\ run > 1) =>
        /\ trace = prev.trace
        /\ exitCode = prev.exitCode
        /\ stdout = prev.stdout

\* C8 amended: two runs on identical input (same path, same file contents,
\* same availability of joblib) enter the same stages and print the same
\* accuracy and the same importance values; when the write of the artifact
\* also has the same outcome in both (it succeeds in both or raises in
\* both), they make the same calls and end with the same exit code and the
\* same stdout and stderr.
C8_Deterministic ==
    (Done /\ run > 1) =>
        /\ trace = prev.trace
        /\ ReportOf(stdout) = ReportOf(prev.stdout)
        /\ (DumpRaised(stderr) <=> DumpRaised(prev.stderr)) =>
              /\ exitCode = prev.exitCode
              /\ stdout = prev.stdout
              /\ stderr = prev.stderr
              /\ calls = prev.calls

\* A second run has printed its report and saved the model, as the first did.
C8_Witness ==
    /\ Done /\ run = 2
    /\ Len(stdout) = 3 /\ exitCode = 0
    /\ Len(prev.stdout) = 3 /\ prev.exitCode = 0

----------------------------------------------------------------------------
(* C9 *)

StageOrder == <<"Load", "Validate", "Split", "Fit", "Report", "Persist">>

IsPrefix(s, t) ==
    /\ Len(s) <= Len(t)
    /\ \A i \in 1..Len(s) : s[i] = t[i]

\* The place of a line among the three lines of a successful run (0: other).
LineRank(l) ==
    IF l.text = "Test accuracy: " THEN 1
    ELSE IF l.text = "Feature importances:" THEN 2
    ELSE IF l.text = SavedLine.text THEN 3
    ELSE 0

\* Accuracy before importances before "Model saved", each at most once, and
\* the later ones only after the earlier ones.
OutputInOrder ==
    /\ \A i, j \in 1..Len(stdout) :
          (i < j /\ LineRank(stdout[i]) > 0) =>
              LineRank(stdout[i]) < LineRank(stdout[j])
    /\ \A i \in 1..Len(stdout) :
          LineRank(stdout[i]) > 1 =>
              \E h \in 1..(i - 1) : LineRank(stdout[h]) = LineRank(stdout[i]) - 1

StagesLinear ==
    /\ IsPrefix(trace, StageOrder)
    /\ OutputInOrder
    /\ stderr # <<>> => Done
    /\ Entered("Persist") <=> Printed("Feature importances:")

\* C9: the stages a run has entered are always a prefix of Load, Validate,
\* Split, Fit, Report, Persist (so none is entered twice or out of order,
\* and none after a failure); within a run the sequence only grows; the
\* accuracy line precedes the importances line and both precede "Model
\* saved"; and every run reaches exit.
C9_LinearStages ==
    /\ []StagesLinear
    /\ [][run' = run => IsPrefix(trace, trace')]_vars
    /\ [][pc = "exit" => (pc' = "start" /\ run' = run + 1)]_vars
    /\ (pc # "exit") ~> (pc = "exit")

\* A run has gone through all six stages and printed its three lines.
C9_Witness ==
    /\ Done /\ trace = StageOrder
    /\ Len(stdout) = 3 /\ exitCode = 0

----------------------------------------------------------------------------
(* C10 *)

CountIn(rows, c) == Cardinality({i \in rows : file.labels[i] = c})

Abs(x) == IF x < 0 THEN -x ELSE x

\* The smallest whole number of rows that is at least 20% of n.
TwentyPercentUp(n) == CHOOSE m \in 0..n : 5 * m >= n /\ 5 * (m - 1) < n

\* The label counts of a set of rows are within one row of the
\* proportional share of each label.
Proportional(rows) ==
    \A c \in Labels :
        Abs(Len(file.labels) * CountIn(rows, c)
              - CountIn(1..Len(file.labels), c) * Cardinality(rows))
          < Len(file.labels)

Balanced(rows) == CountIn(rows, 0) = CountIn(rows, 1)

IsPartition ==
    /\ parts.train \cap parts.test = {}
    /\ parts.train \cup parts.test = 1..Len(file.labels)
    /\ Cardinality(parts.test) = TwentyPercentUp(Len(file.labels))
    /\ Cardinality(parts.train) = Len(file.labels) - Cardinality(parts.test)

\* The tables train_test_split accepts: every label value that occurs has
\* two rows or more, and each partition has as many rows as label values.
Splittable ==
    LET n == Len(file.labels)
        k == Cardinality({c \in Labels : CountIn(1..n, c) > 0})
    IN  /\ n > 0
        /\ \A c \in Labels : CountIn(1..n, c) # 1
        /\ TwentyPercentUp(n) >= k
        /\ n - TwentyPercentUp(n) >= k

\* C10 as stated: for every validated table the split yields a partition
\* into 20% (rounded up) test and the rest train, each label within one row
\* of its share in both, and a 50/50 table gives a 50/50 test partition.
C10_AsStated ==
    Called("train_test_split") =>
        /\ Entered("Fit")
        /\ IsPartition
        /\ Proportional(parts.test) /\ Proportional(parts.train)
        /\ Balanced(1..Len(file.labels)) => Balanced(parts.test)

\* C10 amended: for every validated table of N rows that train_test_split
\* accepts (every label value has at least two rows, and neither partition
\* would have fewer rows than there are label values; on any other table
\* the split raises), the train and test sets are disjoint and together
\* hold every row once, the test set has 20% of the rows rounded up and the
\* train set the rest, each label's count in either set is within one row
\* of its proportional share, and a 50/50 table gives a test set whose two
\* label counts differ by at most one row (equal when its size is even).
C10_StratifiedSplit ==
    /\ Called("train_test_split") => (Entered("Fit") <=> Splittable)
    /\ Entered("Fit") =>
          /\ IsPartition
          /\ Proportional(parts.test) /\ Proportional(parts.train)
          /\ Balanced(1..Len(file.labels)) =>
                /\ Abs(CountIn(parts.test, 0) - CountIn(parts.test, 1)) <= 1
                /\ Cardinality(parts.test) % 2 = 0 => Balanced(parts.test)

\* A balanced table of twelve rows has been split into nine and three.
C10_Witness ==
    /\ Entered("Fit")
    /\ Len(file.labels) = 12 /\ Balanced(1..12)
    /\ Cardinality(parts.test) = 3
    /\ ~Balanced(parts.test)

====
